---- MODULE Spec2Model ----
(***************************************************************************)
(* The annotation synchronisation engine of the grammar-checking editor:   *)
(* the App component (frontend/src/App.jsx) and the Quill editor wrapper   *)
(* with error marks and replaceText (unnamed/part_000).                    *)
(*                                                                         *)
(* One step of the model is one task of the browser's event loop: an event *)
(* handler, a timer callback or the continuation of an awaited fetch,      *)
(* together with the React render and the effects that it causes.          *)
(* Strings are sequences of characters; offsets are 0-based as in the      *)
(* code, positions of sequences 1-based.                                   *)
(***************************************************************************)
EXTENDS Integers, Sequences, FiniteSets, TLC

\* Longest document the user may type.
MaxLen == 2
\* Number of clock ticks the 1000 ms debounce window is divided into.
WindowTicks == 2
\* Most superseded check requests that may still await their response.
MaxStale == 1

Char == {"a", " "}
Whitespace == {" ", "\n"}

Min(a, b) == IF a < b THEN a ELSE b
Max(a, b) == IF a > b THEN a ELSE b
Clamp(x, lo, hi) == Max(lo, Min(x, hi))

-----------------------------------------------------------------------------
(* String.prototype.trim, as used by `!text.trim()`.                       *)

RECURSIVE TrimStart(_)
TrimStart(s) ==
  IF s = <<>> THEN s
  ELSE IF Head(s) \in Whitespace THEN TrimStart(Tail(s)) ELSE s

RECURSIVE TrimEnd(_)
TrimEnd(s) ==
  IF s = <<>> THEN s
  ELSE IF s[Len(s)] \in Whitespace THEN TrimEnd(SubSeq(s, 1, Len(s) - 1)) ELSE s

Trim(s) == TrimEnd(TrimStart(s))

\* Fault: `!text`, the trim left out.
IsBlankNoTrim(s) == s = <<>>

\* `!text.trim()`: the empty string is falsy.
IsBlank(s) == Trim(s) = <<>>

-----------------------------------------------------------------------------
(* The checker's findings (the wire contract of /v2/check and /v2/analyze). *)

Str(s) == [kind |-> "string", value |-> s]
Obj(s) == [kind |-> "object", value |-> s]

FSpell == [offset |-> 0, length |-> 1, message |-> "spelling",
           replacements |-> <<Str(<<"a", "a">>), Obj(<<" ">>)>>]
FAgree == [offset |-> 1, length |-> 1, message |-> "agreement",
           replacements |-> <<Obj(<<"a">>), Str(<<>>)>>]
FWide  == [offset |-> 0, length |-> 2, message |-> "style",
           replacements |-> <<Str(<<"a">>)>>]
FNeg   == [offset |-> -1, length |-> 1, message |-> "negative",
           replacements |-> <<>>]
FZero  == [offset |-> 0, length |-> 0, message |-> "empty",
           replacements |-> <<>>]

\* The bodies a successful response may carry: no finding, two findings, no
\* matches field at all, one finding, and a list with findings no document can
\* hold.
RNone   == [hasMatches |-> TRUE,  matches |-> <<>>,                   ai_enabled |-> FALSE]
RTwo    == [hasMatches |-> TRUE,  matches |-> <<FSpell, FAgree>>,     ai_enabled |-> TRUE]
RAbsent == [hasMatches |-> FALSE, matches |-> <<>>,                   ai_enabled |-> TRUE]
ROne    == [hasMatches |-> TRUE,  matches |-> <<FAgree>>,             ai_enabled |-> TRUE]
ROdd    == [hasMatches |-> TRUE,  matches |-> <<FNeg, FZero, FWide>>, ai_enabled |-> TRUE]

Responses == {RNone, RTwo, RAbsent, ROne, ROdd}
\* The responses of the scheduler's and of the editor's specification.
SchedResponses == {RNone, RTwo, RAbsent, ROne}
EditorResponses == {RTwo, ROdd}

\* `${match.offset}-${match.length}-${match.message}`: the two numbers and the
\* rest of the string are recovered from the id, so the id is the triple.
ErrorId(match) == <<match.offset, match.length, match.message>>

NullResult == [present |-> FALSE, matches |-> <<>>, ai_enabled |-> FALSE]

-----------------------------------------------------------------------------
(* The Quill document: q = [text, marks, sel].  text holds the characters   *)
(* before the final newline, which a Quill document always ends with and   *)
(* which no call removes, formats or selects; marks[p] says whether         *)
(* character p carries the 'error' format; sel is the selection, NoSel     *)
(* when the editor has none.  A range is clipped to the characters before  *)
(* the final newline, as Quill does.                                       *)

NoSel == [index |-> -1, length |-> 0]

\* quill.getText(): the contents with the final newline.
GetText(q) == q.text \o <<"\n">>

Lo(q, index) == Clamp(index, 0, Len(q.text))
Hi(q, index, length) == Clamp(index + length, Lo(q, index), Len(q.text))

FormatText(q, index, length, value) ==
  [q EXCEPT !.marks = [p \in 1..Len(q.text) |->
      IF Lo(q, index) < p /\ p <= Hi(q, index, length) THEN value ELSE q.marks[p]]]

ClipSel(sel, n) ==
  IF sel = NoSel THEN NoSel
  ELSE [index |-> Min(sel.index, n), length |-> Min(sel.length, n - Min(sel.index, n))]

DeleteText(q, index, length) ==
  LET lo == Lo(q, index)
      hi == Hi(q, index, length)
      n  == Len(q.text)
  IN [text  |-> SubSeq(q.text, 1, lo) \o SubSeq(q.text, hi + 1, n),
      marks |-> SubSeq(q.marks, 1, lo) \o SubSeq(q.marks, hi + 1, n),
      sel   |-> ClipSel(q.sel, n - (hi - lo))]

\* The inserted characters take the format `mark` of the place they land in.
InsertText(q, index, s, mark) ==
  LET at == Lo(q, index)
      n  == Len(q.text)
  IN [text  |-> SubSeq(q.text, 1, at) \o s \o SubSeq(q.text, at + 1, n),
      marks |-> SubSeq(q.marks, 1, at) \o [i \in 1..Len(s) |-> mark]
                  \o SubSeq(q.marks, at + 1, n),
      sel   |-> q.sel]

SetSelection(q, index, length) ==
  LET i == Clamp(index, 0, Len(q.text))
  IN [q EXCEPT !.sel = [index |-> i, length |-> Clamp(length, 0, Len(q.text) - i)]]

ClearSelection(q) == [q EXCEPT !.sel = NoSel]

\* quill.format(name, value): formats the current selection.
Format(q, value) == FormatText(q, q.sel.index, q.sel.length, value)

\* The formats the text around position `at` carries: what inserted text may inherit.
MarksAt(q, at) ==
  {FALSE} \cup {q.marks[p] : p \in {at, at + 1} \cap (1..Len(q.text))}

-----------------------------------------------------------------------------
(* The editor component (unnamed/part_000).                                *)

\* quill.root.innerHTML: the text and its formats, without the selection.
InnerHTML(q) == [text |-> q.text, marks |-> q.marks]

\* quill.clipboard.convert(html): the markup read back into contents.  White
\* space at the start and at the end of the line is dropped, as in pasted
\* markup; the value effect hands it white space only.
Convert(html) ==
  LET dropped == Len(html.text) - Len(TrimStart(html.text))
      kept == Len(Trim(html.text))
  IN [text |-> Trim(html.text),
      marks |-> SubSeq(html.marks, dropped + 1, dropped + kept)]

\* quill.setContents(delta, 'silent'): the selection moves with the contents.
SetContents(q, delta) ==
  [text |-> delta.text, marks |-> delta.marks,
   sel |-> ClipSel(q.sel, Len(delta.text))]

\* Fault: the value effect without the test of the editor's text.
ValueEffectAlways(q, updating, value, errors) ==
  IF value # <<>> /\ ~updating /\ errors = <<>>
  THEN [q |-> SetContents(q, Convert(value[1])), calls |-> <<>>, loaded |-> TRUE]
  ELSE [q |-> q, calls |-> <<>>, loaded |-> FALSE]

\* The effect on `value`: while the editor's trimmed text is empty, no error is
\* shown and the gate is free, the value is loaded silently under the gate.
\* `value` is <<>> for the empty string and <<markup>> otherwise.
ValueEffect(q, updating, value, errors) ==
  IF value # <<>> /\ ~updating /\ Trim(GetText(q)) = <<>> /\ errors = <<>>
  THEN [q |-> SetContents(q, Convert(value[1])), calls |-> <<>>, loaded |-> TRUE]
  ELSE [q |-> q, calls |-> <<>>, loaded |-> FALSE]

\* Fault: the subscriber of the editor before it had a gate.
TextChangeHandlerUngated(updating, q) == <<GetText(q)>>

\* The 'text-change' subscriber: the calls of onChange it makes, each with the
\* plain text handed over; none while isUpdatingRef.current is set.
TextChangeHandler(updating, q) ==
  IF updating THEN <<>> ELSE <<GetText(q)>>

\* Quill emits 'text-change' synchronously after an API call that changed the
\* contents; a call that changed nothing emits nothing.
Emit(updating, before, after) ==
  IF before.text = after.text /\ before.marks = after.marks THEN <<>>
  ELSE TextChangeHandler(updating, after)

\* Fault: replaceText that never sets the gate.
ReplaceTextUngated(q, offset, length, replacement, mark) ==
  LET q1 == FormatText(q, offset, length, FALSE)
      q2 == DeleteText(q1, offset, length)
      q3 == InsertText(q2, offset, replacement, mark)
      q4 == SetSelection(q3, offset + Len(replacement), 0)
  IN [q        |-> q4,
      calls    |-> Emit(FALSE, q, q1) \o Emit(FALSE, q1, q2) \o Emit(FALSE, q2, q3)
                     \o <<GetText(q4)>>,
      updating |-> FALSE]

\* Fault: replaceText without its own onChange call, relying on the subscriber.
ReplaceTextNoOnChange(q, offset, length, replacement, mark) ==
  LET q1 == FormatText(q, offset, length, FALSE)
      q2 == DeleteText(q1, offset, length)
      q3 == InsertText(q2, offset, replacement, mark)
      q4 == SetSelection(q3, offset + Len(replacement), 0)
  IN [q        |-> q4,
      calls    |-> Emit(TRUE, q, q1) \o Emit(TRUE, q1, q2) \o Emit(TRUE, q2, q3),
      updating |-> FALSE]

\* The replaceText method of the imperative handle.  `mark` is the format the
\* inserted text inherits.  The result holds the document, the onChange calls
\* made and the value isUpdatingRef is left with.
ReplaceText(q, offset, length, replacement, mark) ==
  LET q1 == FormatText(q, offset, length, FALSE)
      q2 == DeleteText(q1, offset, length)
      q3 == InsertText(q2, offset, replacement, mark)
      q4 == SetSelection(q3, offset + Len(replacement), 0)
  IN [q        |-> q4,
      calls    |-> Emit(TRUE, q, q1) \o Emit(TRUE, q1, q2) \o Emit(TRUE, q2, q3)
                     \o <<GetText(q4)>>,
      updating |-> FALSE]

\* The Quill calls of replaceText, in order.
ReplaceSteps == <<"formatText", "deleteText", "insertText", "setSelection">>

\* replaceText when its Quill call number `at` throws: the calls before it have
\* taken effect, the one that throws and those after it have not, the catch
\* logs, onChange is not reached and the finally releases the gate.
ReplaceTextThrows(q, offset, length, replacement, mark, at) ==
  LET q1 == FormatText(q, offset, length, FALSE)
      q2 == DeleteText(q1, offset, length)
      q3 == InsertText(q2, offset, replacement, mark)
      done == <<q, q1, q2, q3>>
  IN [q        |-> done[at],
      calls    |-> Emit(TRUE, q, done[at]),
      updating |-> FALSE]

\* Fault: the guard without its upper bound.
InRangeNoUpper(match, textLength) ==
  /\ match.offset >= 0
  /\ match.length > 0

\* The guard of errors.forEach: `match.offset || 0` and `match.length || 0`
\* are the fields themselves, both being numbers.
InRange(match, textLength) ==
  /\ match.offset >= 0
  /\ match.offset + match.length <= textLength
  /\ match.length > 0

\* errors.forEach: st = [q, calls, applied, updating]; applied collects the
\* findings whose span was selected and formatted.
RECURSIVE MarkErrors(_, _, _)
MarkErrors(st, errors, textLength) ==
  IF errors = <<>> THEN st
  ELSE LET match == Head(errors)
           q1 == SetSelection(st.q, match.offset, match.length)
           q2 == Format(q1, TRUE)
           next == IF InRange(match, textLength)
                   THEN [st EXCEPT !.q = q2,
                                   !.calls = st.calls \o Emit(st.updating, q1, q2),
                                   !.applied = st.applied \cup {match}]
                   ELSE st
       IN MarkErrors(next, Tail(errors), textLength)

\* quill.getSelection(true): focuses the editor first, so an editor without a
\* selection gets the caret `focus`.
GetSelection(q, focus) ==
  IF q.sel = NoSel THEN [q EXCEPT !.sel = [index |-> focus, length |-> 0]] ELSE q

\* Fault: the range put back one character further on.
RestoreSelectionShifted(q, range) ==
  IF range # NoSel THEN SetSelection(q, range.index + 1, range.length)
  ELSE ClearSelection(q)

\* The range the projection puts back after marking.
RestoreSelection(q, range) ==
  IF range # NoSel THEN SetSelection(q, range.index, range.length)
  ELSE ClearSelection(q)

\* Fault: the projection without the clearing of the marks already there.
ProjectionNoClear(q, updating, errors, focus) ==
  LET text == GetText(q)
  IN IF errors = <<>>
     THEN [q |-> q, calls |-> <<>>, applied |-> {}, updating |-> FALSE]
     ELSE LET q2 == GetSelection(q, focus)
              range == q2.sel
              st == MarkErrors([q |-> q2, calls |-> <<>>,
                                applied |-> {}, updating |-> TRUE],
                               errors, Len(text))
          IN [q |-> RestoreSelection(st.q, range), calls |-> st.calls,
              applied |-> st.applied, updating |-> FALSE]

\* The callback of the errors effect's timeout: clears every error mark and
\* marks the span of each finding of `errors` that fits the document.
Projection(q, updating, errors, focus) ==
  LET text == GetText(q)
      cleared == IF Len(text) > 0 THEN FormatText(q, 0, Len(text), FALSE) ELSE q
  IN IF errors = <<>>
     THEN IF Len(text) > 0
          THEN [q |-> cleared, calls |-> Emit(TRUE, q, cleared), applied |-> {},
                updating |-> FALSE]
          ELSE [q |-> q, calls |-> <<>>, applied |-> {}, updating |-> updating]
     ELSE LET q2 == GetSelection(cleared, focus)
              range == q2.sel
              st == MarkErrors([q |-> q2, calls |-> Emit(TRUE, q, cleared),
                                applied |-> {}, updating |-> TRUE],
                               errors, Len(text))
          IN [q |-> RestoreSelection(st.q, range), calls |-> st.calls,
              applied |-> st.applied, updating |-> FALSE]

\* The Quill calls of the projection that no try block encloses.
ProjectSteps == {"formatText", "getSelection", "setSelection"}

\* The projection when its call `at` throws: the exception leaves the timeout's
\* callback, so the statements after the call, the release of the gate among
\* them, do not run.
ProjectionThrows(q, updating, errors, focus, at) ==
  LET text == GetText(q)
      cleared == FormatText(q, 0, Len(text), FALSE)
      q2 == GetSelection(cleared, focus)
      st == MarkErrors([q |-> q2, calls |-> <<>>, applied |-> {}, updating |-> TRUE],
                       errors, Len(text))
  IN [q |-> CASE at = "formatText" -> q
              [] at = "getSelection" -> cleared
              [] at = "setSelection" -> st.q,
      calls |-> IF at = "setSelection" THEN st.calls ELSE <<>>,
      updating |-> TRUE]

-----------------------------------------------------------------------------
(* The App component (frontend/src/App.jsx).  Its React state is the       *)
(* record a = [text, result, error, loading, aiLoading, ignoredErrors];    *)
(* error "null" is the null of the code.                                   *)

VARIABLES
  quill,             \* the Quill document: [text, marks, sel]
  isUpdatingRef,     \* the update gate of the editor component
  projTimer,         \* the pending timeout of the errors effect: <<errors>> or <<>>
  text,              \* App state: the plain text last handed to onChange
  result,            \* App state: the check result, NullResult when null
  error,             \* App state: the message shown, "null" when null
  loading,           \* App state
  aiLoading,         \* App state
  ignoredErrors,     \* App state: the ids of the ignored findings
  ignoredErrorsRef,  \* the ref that mirrors ignoredErrors
  timers,            \* pending debounce timeouts, oldest first: [left, text]
  inflightLatest,    \* the check request issued last still awaits its response
  inflightStale,     \* number of earlier check requests that still await theirs
  analyzeInFlight,   \* the pending /v2/analyze call: <<result it closed over>> or <<>>
  sent,              \* the requests issued by the last step: [kind, text]
  delivered,         \* the plain texts handed to onChange by the last step
  projected,         \* the projection run by the last step: <<[errors, applied, again]>>
  accepted,          \* the check response accepted by the last step: <<[before, matches, stale]>>
  replaced,          \* the replaceText call of the last step: <<[offset, length, replacement, before, match, thrown]>>
  lastProjected,     \* <<errors>> of the last projection while the document is as it left it
  resultAge,         \* "current": the result answers a request that carried the text as it
                     \* is; "stale": the text has changed once since, to another; else "unknown"
  htmlContent,       \* App state: the markup last handed to onChange, <<>> for ''
  loaded,            \* the value the value effect loaded in the last step: <<[before, value, calls]>>
  quiet,             \* ticks since the text last changed, up to WindowTicks
  issuedInQuiet      \* check requests issued since the text last changed, up to 2

vars == <<quill, isUpdatingRef, projTimer, text, result, error, loading, aiLoading,
          ignoredErrors, ignoredErrorsRef, timers, inflightLatest, inflightStale,
          analyzeInFlight, sent, delivered, projected, accepted, replaced,
          lastProjected, resultAge, htmlContent, loaded, quiet,
          issuedInQuiet>>

App == [text |-> text, result |-> result, error |-> error, loading |-> loading,
        aiLoading |-> aiLoading, ignoredErrors |-> ignoredErrors]

Failures == {"Erro ao conectar a api"}

HandleEditorChange(a, plainText) == [a EXCEPT !.text = plainText]

\* The onChange calls of one task, in order; React batches the updates.
RECURSIVE OnChange(_, _)
OnChange(a, calls) ==
  IF calls = <<>> THEN a
  ELSE OnChange(HandleEditorChange(a, Head(calls)), Tail(calls))

\* The `errors` prop: the findings of the result that are not ignored.
ActiveErrors(a) ==
  SelectSeq(a.result.matches, LAMBDA match : ErrorId(match) \notin a.ignoredErrors)

\* The positions (1-based) of the findings the result list shows.
Displayed(a) ==
  {i \in 1..Len(a.result.matches) : ErrorId(a.result.matches[i]) \notin a.ignoredErrors}

\* Fault: the ignored finding also taken out of the result.
HandleIgnoreErrorDropsMatch(a, matchIndex) ==
  IF ~a.result.present THEN a
  ELSE [a EXCEPT !.ignoredErrors = @ \cup {ErrorId(a.result.matches[matchIndex])},
                 !.result.matches = SelectSeq(@, LAMBDA match :
                                                   match # a.result.matches[matchIndex])]

HandleIgnoreError(a, matchIndex) ==
  IF ~a.result.present THEN a
  ELSE [a EXCEPT !.ignoredErrors = @ \cup {ErrorId(a.result.matches[matchIndex])}]

\* A replacement candidate is a string or an object with a value field.
ReplacementText(replacement) == replacement.value

\* `!replacement`: of the candidates only the empty string is falsy.
Falsy(replacement) == replacement.kind = "string" /\ replacement.value = <<>>

\* Fault: the ignore set emptied instead of the one id deleted.
HandleReplaceTextForgetsIgnored(a, q, updating, matchIndex, replacementIndex, mark) ==
  LET same == [a |-> a, q |-> q, calls |-> <<>>, updating |-> updating,
               replaced |-> <<>>]
  IN IF ~a.result.present \/ matchIndex > Len(a.result.matches) THEN same
     ELSE LET match == a.result.matches[matchIndex]
              replacement == match.replacements[replacementIndex]
          IN IF Falsy(replacement) THEN same
             ELSE LET r == ReplaceText(q, match.offset, match.length,
                                       ReplacementText(replacement), mark)
                  IN [a |-> [OnChange(a, r.calls) EXCEPT !.ignoredErrors = {}],
                      q |-> r.q, calls |-> r.calls, updating |-> r.updating,
                      replaced |-> <<[offset |-> match.offset, length |-> match.length,
                                      replacement |-> ReplacementText(replacement),
                                      before |-> GetText(q), match |-> match,
                                      thrown |-> "none"]>>]

\* Returns the App state, the document, the onChange calls, the gate and
\* the replaceText call made.
HandleReplaceText(a, q, updating, matchIndex, replacementIndex, mark) ==
  LET same == [a |-> a, q |-> q, calls |-> <<>>, updating |-> updating,
               replaced |-> <<>>]
  IN IF ~a.result.present \/ matchIndex > Len(a.result.matches) THEN same
     ELSE LET match == a.result.matches[matchIndex]
              replacement == match.replacements[replacementIndex]
          IN IF Falsy(replacement) THEN same
             ELSE LET r == ReplaceText(q, match.offset, match.length,
                                       ReplacementText(replacement), mark)
                  IN [a |-> [OnChange(a, r.calls) EXCEPT
                               !.ignoredErrors = @ \ {ErrorId(match)}],
                      q |-> r.q, calls |-> r.calls, updating |-> r.updating,
                      replaced |-> <<[offset |-> match.offset, length |-> match.length,
                                      replacement |-> ReplacementText(replacement),
                                      before |-> GetText(q), match |-> match,
                                      thrown |-> "none"]>>]

\* checkText up to its await: `t` is the text the callback closed over.
\* Returns the App state and the requests issued.
CheckTextStart(a, t) ==
  IF IsBlank(t)
  THEN [a |-> [a EXCEPT !.error = "Por favor, digite um texto para verificar.",
                        !.result = NullResult, !.ignoredErrors = {}],
        sent |-> <<>>]
  ELSE [a |-> [a EXCEPT !.loading = TRUE, !.error = "null"],
        sent |-> <<[kind |-> "check", text |-> t]>>]

\* Fault: the ignored ids kept whatever the response holds.
PreservedIgnoredAll(previous, newMatches) == previous

\* The ids of `previous` that recur among the new matches.
PreservedIgnored(previous, newMatches) ==
  {ErrorId(newMatches[i]) : i \in {j \in 1..Len(newMatches) :
                                     ErrorId(newMatches[j]) \in previous}}

\* checkText after the await, response ok: `ref` is ignoredErrorsRef.current.
CheckTextOk(a, ref, data) ==
  LET newMatches == IF data.hasMatches THEN data.matches ELSE <<>>
  IN [a EXCEPT !.result = [present |-> TRUE, matches |-> newMatches,
                           ai_enabled |-> data.ai_enabled],
               !.ignoredErrors = PreservedIgnored(ref, newMatches),
               !.loading = FALSE]

\* Fault: a failure that blanks the result, as the first version of checkText did
\* when it issued a request.
CheckTextFailClears(a, message) ==
  [a EXCEPT !.error = message, !.loading = FALSE, !.result = NullResult]

\* Fault: the failure path without the `finally` that ends the loading.
CheckTextFailKeepsLoading(a, message) ==
  [a EXCEPT !.error = message]

\* checkText after the await, response not ok or fetch rejected.
CheckTextFail(a, message) ==
  [a EXCEPT !.error = message, !.loading = FALSE]

HandleAnalyzeStart(a) ==
  IF IsBlank(a.text)
  THEN [a |-> [a EXCEPT !.error = "Por favor, digite um texto para analisar."],
        sent |-> <<>>]
  ELSE [a |-> [a EXCEPT !.aiLoading = TRUE, !.error = "null"],
        sent |-> <<[kind |-> "analyze", text |-> a.text]>>]

\* handleAnalyzeWithAI after the await: `closed` is the result the handler closed over.
HandleAnalyzeOk(a, closed, data) ==
  [a EXCEPT !.result = IF data.hasMatches
                       THEN [closed EXCEPT !.present = TRUE, !.matches = data.matches]
                       ELSE @,
            !.aiLoading = FALSE]

HandleAnalyzeFail(a, message) ==
  [a EXCEPT !.error = message, !.aiLoading = FALSE]

\* Fault: the pending timeout left running.
ClearTimeoutNone(ts) == ts

\* clearTimeout(debounceTimerRef.current): the ref holds the timeout created
\* last, which is the last of the pending ones.
ClearTimeout(ts) == IF ts = <<>> THEN ts ELSE SubSeq(ts, 1, Len(ts) - 1)

\* Fault: the ignore set kept when the text becomes empty.
DebounceEffectKeepIgnored(a, ts) ==
  IF IsBlank(a.text)
  THEN [a |-> [a EXCEPT !.result = NullResult, !.error = "null"],
        timers |-> ClearTimeout(ts)]
  ELSE [a |-> a,
        timers |-> Append(ClearTimeout(ts), [left |-> WindowTicks, text |-> a.text])]

\* Fault: a new timeout started without the pending one being cleared.
DebounceEffectNoCancel(a, ts) ==
  IF IsBlank(a.text)
  THEN [a |-> [a EXCEPT !.result = NullResult, !.error = "null", !.ignoredErrors = {}],
        timers |-> ClearTimeout(ts)]
  ELSE [a |-> a,
        timers |-> Append(ts, [left |-> WindowTicks, text |-> a.text])]

\* The debounce effect, run when `text` changed.
DebounceEffect(a, ts) ==
  IF IsBlank(a.text)
  THEN [a |-> [a EXCEPT !.result = NullResult, !.error = "null", !.ignoredErrors = {}],
        timers |-> ClearTimeout(ts)]
  ELSE [a |-> a,
        timers |-> Append(ClearTimeout(ts), [left |-> WindowTicks, text |-> a.text])]

-----------------------------------------------------------------------------
(* The state after construction: an empty editor without focus, the first  *)
(* render done, the errors effect's first timeout pending.                 *)

Init ==
  /\ quill = [text |-> <<>>, marks |-> <<>>, sel |-> NoSel]
  /\ isUpdatingRef = FALSE
  /\ projTimer = << <<>> >>
  /\ text = <<>>
  /\ result = NullResult
  /\ error = "null"
  /\ loading = FALSE
  /\ aiLoading = FALSE
  /\ ignoredErrors = {}
  /\ ignoredErrorsRef = {}
  /\ timers = <<>>
  /\ inflightLatest = FALSE
  /\ inflightStale = 0
  /\ analyzeInFlight = <<>>
  /\ sent = <<>>
  /\ delivered = <<>>
  /\ projected = <<>>
  /\ accepted = <<>>
  /\ replaced = <<>>
  /\ lastProjected = <<>>
  /\ resultAge = "unknown"
  /\ htmlContent = <<>>
  /\ loaded = <<>>
  /\ quiet = 0
  /\ issuedInQuiet = 0

\* What React does after a task left the App state a1 and the pending debounce
\* timeouts ts: the render, the effect that mirrors ignoredErrors into its ref,
\* the debounce effect when `text` changed and, after every render, the errors
\* effect, which replaces the projection's timeout (pt is the one pending).
React(a1, ts, pt, rendered) ==
  LET changed == a1.text # text
      eff == IF changed THEN DebounceEffect(a1, ts) ELSE [a |-> a1, timers |-> ts]
  IN /\ text' = eff.a.text
     /\ result' = eff.a.result
     /\ error' = eff.a.error
     /\ loading' = eff.a.loading
     /\ aiLoading' = eff.a.aiLoading
     /\ ignoredErrors' = eff.a.ignoredErrors
     /\ ignoredErrorsRef' = eff.a.ignoredErrors
     /\ timers' = eff.timers
     /\ projTimer' = IF rendered \/ changed THEN <<ActiveErrors(eff.a)>> ELSE pt
     /\ quiet' = IF changed THEN 0 ELSE quiet

\* The bookkeeping of a step: the requests it issued, the onChange calls it
\* made and what is known of the text the result was computed for.  `answer`
\* is "fresh" when the step accepted the response of a request that carried
\* the text as it is, "other" when it accepted another response, "none" else.
Observed(a1, sentNow, calls, answer) ==
  /\ sent' = sentNow
  /\ delivered' = calls
  /\ issuedInQuiet' =
       Min(2, (IF a1.text # text THEN 0 ELSE issuedInQuiet)
              + Len(SelectSeq(sentNow, LAMBDA r : r.kind = "check")))
  /\ resultAge' =
       IF result' = NullResult THEN "unknown"
       ELSE IF answer = "fresh" THEN "current"
       ELSE IF answer = "other" \/ result' # result THEN "unknown"
       ELSE IF text' # text
            THEN (IF resultAge = "current" THEN "stale" ELSE "unknown")
       ELSE resultAge

Observe(a1, sentNow, calls) == Observed(a1, sentNow, calls, "none")

\* The document as a task left it (q, with the gate `updating`) and the render
\* that follows: the markup of the task's onChange call becomes `value`, and
\* the value effect runs when `value` changed, with the errors of that render.
\* A projection's record lapses when the document changed.
Document(q, updating, a1, calls) ==
  LET value == IF calls = <<>> THEN htmlContent ELSE <<InnerHTML(q)>>
      run == value # htmlContent
      r == ValueEffect(q, updating, value, ActiveErrors(a1))
      q1 == IF run THEN r.q ELSE q
  IN /\ quill' = q1
     /\ htmlContent' = value
     /\ loaded' = IF run /\ r.loaded
                  THEN <<[before |-> q, value |-> value[1], calls |-> r.calls]>>
                  ELSE <<>>
     /\ lastProjected' = IF q1 = quill THEN lastProjected ELSE <<>>

Carets(q) == 0..Len(q.text)

Selections(q) ==
  {sel \in [index : 0..Len(q.text), length : 0..Len(q.text)] :
     sel.index + sel.length <= Len(q.text)}

-----------------------------------------------------------------------------
(* The user at the editor.                                                 *)

\* The user's edit reaches the 'text-change' subscriber with source 'user'.
UserChange(q) ==
  LET calls == TextChangeHandler(isUpdatingRef, q)
      a1 == OnChange(App, calls)
  IN /\ Document(q, isUpdatingRef, a1, calls)
     /\ React(a1, timers, projTimer, calls # <<>>)
     /\ Observe(a1, <<>>, calls)
     /\ projected' = <<>> /\ accepted' = <<>> /\ replaced' = <<>>
     /\ UNCHANGED <<isUpdatingRef, inflightLatest, inflightStale, analyzeInFlight>>

UserInsert ==
  \E at \in Carets(quill), c \in Char :
    \E mark \in MarksAt(quill, at) :
      /\ Len(quill.text) < MaxLen
      /\ UserChange(SetSelection(InsertText(quill, at, <<c>>, mark), at + 1, 0))

UserDelete ==
  \E at \in 0..(Len(quill.text) - 1) :
    UserChange(SetSelection(DeleteText(quill, at, 1), at, 0))

\* The user moves the caret, selects a range or leaves the editor.
UserSelect ==
  \E sel \in Selections(quill) \cup {NoSel} :
    /\ sel # quill.sel
    /\ Document([quill EXCEPT !.sel = sel], isUpdatingRef, App, <<>>)
    /\ sent' = <<>> /\ delivered' = <<>>
    /\ projected' = <<>> /\ accepted' = <<>> /\ replaced' = <<>>
    /\ UNCHANGED <<isUpdatingRef, projTimer, text, result, error, loading, aiLoading,
                   ignoredErrors, ignoredErrorsRef, timers, inflightLatest,
                   inflightStale, analyzeInFlight, resultAge, quiet, issuedInQuiet>>

-----------------------------------------------------------------------------
(* Time and the debounce timeout.                                          *)

\* One tick of the clock passes; a timeout that is due fires first.
Tick ==
  /\ \A i \in 1..Len(timers) : timers[i].left > 0
  /\ timers # <<>> \/ quiet < WindowTicks
  /\ timers' = [i \in 1..Len(timers) |-> [timers[i] EXCEPT !.left = @ - 1]]
  /\ quiet' = Min(WindowTicks, quiet + 1)
  /\ sent' = <<>> /\ delivered' = <<>>
  /\ projected' = <<>> /\ accepted' = <<>> /\ replaced' = <<>>
  /\ loaded' = <<>>
  /\ UNCHANGED <<quill, htmlContent, isUpdatingRef, projTimer, text, result, error, loading,
                 aiLoading, ignoredErrors, ignoredErrorsRef, inflightLatest,
                 inflightStale, analyzeInFlight, lastProjected, resultAge,
                 issuedInQuiet>>

\* The oldest debounce timeout is due: its callback runs checkText up to the await.
TimerFire ==
  /\ timers # <<>>
  /\ Head(timers).left = 0
  /\ LET r == CheckTextStart(App, Head(timers).text)
         issued == r.sent # <<>>
     IN /\ issued /\ inflightLatest => inflightStale < MaxStale
        /\ inflightLatest' = (issued \/ inflightLatest)
        /\ inflightStale' = IF issued /\ inflightLatest THEN inflightStale + 1
                            ELSE inflightStale
        /\ React(r.a, Tail(timers), projTimer, r.a # App)
        /\ Observe(r.a, r.sent, <<>>)
  /\ projected' = <<>> /\ accepted' = <<>> /\ replaced' = <<>>
  /\ loaded' = <<>>
  /\ UNCHANGED <<quill, htmlContent, isUpdatingRef, analyzeInFlight, lastProjected>>

-----------------------------------------------------------------------------
(* The responses of /v2/check.  `stale` says which pending request is      *)
(* answered: one superseded by a later request, or the one issued last.    *)

Answered(stale) ==
  /\ IF stale THEN inflightStale > 0 ELSE inflightLatest
  /\ inflightStale' = IF stale THEN inflightStale - 1 ELSE inflightStale
  /\ inflightLatest' = (stale /\ inflightLatest)

CheckResponseOk(responses) ==
  \E stale \in BOOLEAN, data \in responses :
    LET a1 == CheckTextOk(App, ignoredErrorsRef, data)
    IN /\ Answered(stale)
       /\ React(a1, timers, projTimer, TRUE)
       /\ Observed(a1, <<>>, <<>>,
                   IF ~stale /\ issuedInQuiet >= 1 THEN "fresh" ELSE "other")
       /\ accepted' = <<[before |-> ignoredErrors,
                         matches |-> IF data.hasMatches THEN data.matches ELSE <<>>,
                         stale |-> stale]>>
       /\ projected' = <<>> /\ replaced' = <<>>
       /\ loaded' = <<>>
       /\ UNCHANGED <<quill, htmlContent, isUpdatingRef, analyzeInFlight, lastProjected>>

CheckResponseFail ==
  \E stale \in BOOLEAN, message \in Failures :
    LET a1 == CheckTextFail(App, message)
    IN /\ Answered(stale)
       /\ React(a1, timers, projTimer, a1 # App)
       /\ Observe(a1, <<>>, <<>>)
       /\ projected' = <<>> /\ accepted' = <<>> /\ replaced' = <<>>
       /\ loaded' = <<>>
       /\ UNCHANGED <<quill, htmlContent, isUpdatingRef, analyzeInFlight, lastProjected>>

-----------------------------------------------------------------------------
(* The deep analysis.  The button shows when the result has ai_enabled and *)
(* is disabled while an analysis runs or the trimmed text is empty.        *)

AnalyzeClick ==
  /\ result.present /\ result.ai_enabled
  /\ ~aiLoading /\ ~IsBlank(text)
  /\ LET r == HandleAnalyzeStart(App)
     IN /\ analyzeInFlight' = IF r.sent # <<>>
                              THEN <<[result EXCEPT !.matches = <<>>]>>
                              ELSE analyzeInFlight
        /\ React(r.a, timers, projTimer, TRUE)
        /\ Observe(r.a, r.sent, <<>>)
  /\ projected' = <<>> /\ accepted' = <<>> /\ replaced' = <<>>
  /\ loaded' = <<>>
  /\ UNCHANGED <<quill, htmlContent, isUpdatingRef, inflightLatest, inflightStale, lastProjected>>

AnalyzeResponseOk(responses) ==
  \E data \in responses :
    /\ analyzeInFlight # <<>>
    /\ LET a1 == HandleAnalyzeOk(App, analyzeInFlight[1], data)
       IN /\ React(a1, timers, projTimer, TRUE)
          /\ Observe(a1, <<>>, <<>>)
    /\ analyzeInFlight' = <<>>
    /\ projected' = <<>> /\ accepted' = <<>> /\ replaced' = <<>>
    /\ loaded' = <<>>
    /\ UNCHANGED <<quill, htmlContent, isUpdatingRef, inflightLatest, inflightStale, lastProjected>>

AnalyzeResponseFail ==
  \E message \in Failures :
    /\ analyzeInFlight # <<>>
    /\ LET a1 == HandleAnalyzeFail(App, message)
       IN /\ React(a1, timers, projTimer, TRUE)
          /\ Observe(a1, <<>>, <<>>)
    /\ analyzeInFlight' = <<>>
    /\ projected' = <<>> /\ accepted' = <<>> /\ replaced' = <<>>
    /\ loaded' = <<>>
    /\ UNCHANGED <<quill, htmlContent, isUpdatingRef, inflightLatest, inflightStale, lastProjected>>

-----------------------------------------------------------------------------
(* The result list: every finding shown has an ignore button and one entry *)
(* per replacement candidate.                                              *)

IgnoreClick ==
  \E matchIndex \in Displayed(App) :
    LET a1 == HandleIgnoreError(App, matchIndex)
    IN /\ result.present
       /\ React(a1, timers, projTimer, TRUE)
       /\ Observe(a1, <<>>, <<>>)
       /\ projected' = <<>> /\ accepted' = <<>> /\ replaced' = <<>>
       /\ loaded' = <<>>
       /\ UNCHANGED <<quill, htmlContent, isUpdatingRef, inflightLatest, inflightStale,
                      analyzeInFlight, lastProjected>>

ReplaceClick ==
  \E matchIndex \in Displayed(App) :
    \E replacementIndex \in 1..Len(result.matches[matchIndex].replacements) :
      \E mark \in MarksAt(quill, Lo(quill, result.matches[matchIndex].offset)) :
        LET r == HandleReplaceText(App, quill, isUpdatingRef, matchIndex,
                                   replacementIndex, mark)
        IN /\ result.present
           /\ Len(r.q.text) <= MaxLen
           /\ Document(r.q, r.updating, r.a, r.calls)
           /\ isUpdatingRef' = r.updating
           /\ React(r.a, timers, projTimer, r.calls # <<>>)
           /\ Observe(r.a, <<>>, r.calls)
           /\ replaced' = r.replaced
           /\ projected' = <<>> /\ accepted' = <<>>
           /\ UNCHANGED <<inflightLatest, inflightStale, analyzeInFlight>>

-----------------------------------------------------------------------------
(* The timeout of the errors effect fires: the projection runs with the    *)
(* errors the effect closed over.                                          *)

ProjectFire ==
  \E focus \in Carets(quill) :
    /\ projTimer # <<>>
    /\ LET r == Projection(quill, isUpdatingRef, projTimer[1], focus)
           a1 == OnChange(App, r.calls)
       IN /\ quill' = r.q
          /\ isUpdatingRef' = r.updating
          /\ htmlContent' = IF r.calls = <<>> THEN htmlContent ELSE <<InnerHTML(r.q)>>
          /\ loaded' = <<>>
          /\ lastProjected' = <<projTimer[1]>>
          /\ React(a1, timers, <<>>, r.calls # <<>>)
          /\ Observe(a1, <<>>, r.calls)
          /\ projected' = <<[errors |-> projTimer[1], applied |-> r.applied,
                             again |-> lastProjected = <<projTimer[1]>>]>>
    /\ accepted' = <<>> /\ replaced' = <<>>
    /\ UNCHANGED <<inflightLatest, inflightStale, analyzeInFlight>>

-----------------------------------------------------------------------------
(* Quill calls that throw.                                                 *)

\* A replacement is clicked and a Quill call of replaceText throws; the handler
\* goes on to take the finding's id out of the ignore set.
ReplaceClickThrows ==
  \E matchIndex \in Displayed(App), at \in 1..Len(ReplaceSteps) :
    \E replacementIndex \in 1..Len(result.matches[matchIndex].replacements) :
      \E mark \in MarksAt(quill, Lo(quill, result.matches[matchIndex].offset)) :
        LET match == result.matches[matchIndex]
            replacement == match.replacements[replacementIndex]
            r == ReplaceTextThrows(quill, match.offset, match.length,
                                   ReplacementText(replacement), mark, at)
            a1 == [OnChange(App, r.calls) EXCEPT !.ignoredErrors = @ \ {ErrorId(match)}]
        IN /\ result.present
           /\ ~Falsy(replacement)
           /\ Len(r.q.text) <= MaxLen
           /\ Document(r.q, r.updating, a1, r.calls)
           /\ isUpdatingRef' = r.updating
           /\ React(a1, timers, projTimer, TRUE)
           /\ Observe(a1, <<>>, r.calls)
           /\ replaced' = <<[offset |-> match.offset, length |-> match.length,
                             replacement |-> ReplacementText(replacement),
                             before |-> GetText(quill), match |-> match,
                             thrown |-> ReplaceSteps[at]]>>
           /\ projected' = <<>> /\ accepted' = <<>>
           /\ UNCHANGED <<inflightLatest, inflightStale, analyzeInFlight>>

\* The timeout of the errors effect fires and a Quill call outside the try
\* block throws.
ProjectFireThrows ==
  \E focus \in Carets(quill), at \in ProjectSteps :
    /\ projTimer # <<>>
    /\ projTimer[1] = <<>> => at = "formatText"
    /\ LET r == ProjectionThrows(quill, isUpdatingRef, projTimer[1], focus, at)
           a1 == OnChange(App, r.calls)
       IN /\ Document(r.q, r.updating, a1, r.calls)
          /\ isUpdatingRef' = r.updating
          /\ React(a1, timers, <<>>, r.calls # <<>>)
          /\ Observe(a1, <<>>, r.calls)
    /\ projected' = <<>> /\ accepted' = <<>> /\ replaced' = <<>>
    /\ UNCHANGED <<inflightLatest, inflightStale, analyzeInFlight>>

Next ==
  \/ UserInsert
  \/ UserDelete
  \/ UserSelect
  \/ Tick
  \/ TimerFire
  \/ CheckResponseOk(Responses)
  \/ CheckResponseFail
  \/ AnalyzeClick
  \/ AnalyzeResponseOk(Responses)
  \/ AnalyzeResponseFail
  \/ IgnoreClick
  \/ ReplaceClick
  \/ ProjectFire

\* The whole system.
Spec == Init /\ [][Next]_vars

-----------------------------------------------------------------------------
(* The scheduler's specification: the system from its initial state with   *)
(* the projection's timeout left pending and the selection moved by edits  *)
(* only.  Neither touches the App state, the timeouts or the requests.     *)

SchedNext ==
  \/ UserInsert
  \/ UserDelete
  \/ Tick
  \/ TimerFire
  \/ CheckResponseOk(SchedResponses)
  \/ CheckResponseFail
  \/ AnalyzeClick
  \/ AnalyzeResponseOk(SchedResponses)
  \/ AnalyzeResponseFail
  \/ IgnoreClick
  \/ ReplaceClick

SchedSpec == Init /\ [][SchedNext]_vars

-----------------------------------------------------------------------------
(* The editor's specification: the user has typed a document and placed    *)
(* the selection, two check requests await their responses and the last    *)
(* edit's debounce timeout is pending; time stands still while responses,  *)
(* projections, ignore and replacement clicks follow.                      *)

Texts == UNION {[1..n -> Char] : n \in 0..MaxLen}

EditorInit ==
  \E t \in Texts :
    \E sel \in Selections([text |-> t]) \cup {NoSel} :
      /\ quill = [text |-> t, marks |-> [p \in 1..Len(t) |-> FALSE], sel |-> sel]
      /\ isUpdatingRef = FALSE
      /\ projTimer = << <<>> >>
      /\ text = GetText(quill)
      /\ result = NullResult
      /\ error = "null"
      /\ loading = TRUE
      /\ aiLoading = FALSE
      /\ ignoredErrors = {}
      /\ ignoredErrorsRef = {}
      /\ timers = IF IsBlank(t) THEN <<>>
                  ELSE <<[left |-> WindowTicks, text |-> GetText(quill)]>>
      /\ inflightLatest = TRUE
      /\ inflightStale = 1
      /\ analyzeInFlight = <<>>
      /\ sent = <<>>
      /\ delivered = <<>>
      /\ projected = <<>>
      /\ accepted = <<>>
      /\ replaced = <<>>
      /\ lastProjected = <<>>
      /\ resultAge = "unknown"
      /\ htmlContent = <<InnerHTML(quill)>>
      /\ loaded = <<>>
      /\ quiet = 0
      /\ issuedInQuiet = 0

EditorNext ==
  \/ CheckResponseOk(EditorResponses)
  \/ CheckResponseFail
  \/ IgnoreClick
  \/ ReplaceClick
  \/ ProjectFire

EditorSpec == EditorInit /\ [][EditorNext]_vars

\* The replacement's specification: edits, the debounce window, check
\* responses with findings or failures, ignore and replacement clicks, with time that
\* passes, timeouts that fire when due and fetches that settle.
ReplaceNext ==
  \/ UserInsert
  \/ UserDelete
  \/ Tick
  \/ TimerFire
  \/ CheckResponseOk({RTwo})
  \/ CheckResponseFail
  \/ IgnoreClick
  \/ ReplaceClick

ReplaceFairSpec ==
  /\ Init /\ [][ReplaceNext]_vars
  /\ WF_vars(Tick)
  /\ WF_vars(TimerFire)
  /\ WF_vars(CheckResponseOk({RTwo}) \/ CheckResponseFail)

-----------------------------------------------------------------------------
(* The editor's specification with Quill calls that throw: responses with *)
(* findings, then replacement clicks and projections in which one Quill    *)
(* call throws.  The calls that return are those of the editor's           *)
(* specification above.                                                    *)

FaultNext ==
  \/ CheckResponseOk({RTwo})
  \/ ReplaceClickThrows
  \/ ProjectFireThrows

FaultSpec == EditorInit /\ [][FaultNext]_vars

-----------------------------------------------------------------------------
(* The properties.                                                         *)

NonBlank(t) == \E k \in 1..Len(t) : t[k] \notin Whitespace

Ids(matches) == {ErrorId(matches[i]) : i \in 1..Len(matches)}

\* D[0:offset] + t + D[offset+length:]
Splice(d, offset, length, t) ==
  SubSeq(d, 1, offset) \o t \o SubSeq(d, offset + length + 1, Len(d))

Fits(offset, length, d) == 0 <= offset /\ length > 0 /\ offset + length <= Len(d)

\* C1: last request wins: the response of a check request that a later check
\* request has superseded is discarded, so no step accepts (stores as the
\* result) the response of a superseded request.
C1_LastRequestWins ==
  \A i \in 1..Len(accepted) : ~accepted[i].stale

\* C2: replaceText(offset, length, t) with 0 <= offset, length > 0 and
\* offset + length <= len(D), D the plain text getText() returns, leaves the
\* document, and the text handed to onChange, equal to
\* D[0:offset] + t + D[offset+length:].
C2_ReplaceSplices ==
  \A i \in 1..Len(replaced) :
    LET c == replaced[i]
    IN Fits(c.offset, c.length, c.before) =>
         /\ GetText(quill) = Splice(c.before, c.offset, c.length, c.replacement)
         /\ delivered = <<Splice(c.before, c.offset, c.length, c.replacement)>>

\* C3: when a check response is accepted, the new ignore set is the ignore set
\* held at that moment intersected with the ids of the response's findings; a
\* finding whose id was ignored is not among the active (highlighted) ones.
C3_ReconcileIntersects ==
  \A i \in 1..Len(accepted) :
    /\ ignoredErrors = accepted[i].before \cap Ids(accepted[i].matches)
    /\ result.matches = accepted[i].matches
    /\ \A j \in 1..Len(ActiveErrors(App)) :
         ErrorId(ActiveErrors(App)[j]) \notin accepted[i].before

\* A response was accepted that kept one ignored id and dropped another.
C3_Witness ==
  \E i \in 1..Len(accepted) :
    /\ accepted[i].before \cap Ids(accepted[i].matches) # {}
    /\ accepted[i].before \ Ids(accepted[i].matches) # {}

\* C4: no check request and no deep-analysis request carries a text that is
\* empty or whitespace only.
C4_NoBlankRequest ==
  \A i \in 1..Len(sent) : NonBlank(sent[i].text)

\* A check request was issued for a text that begins with whitespace.
C4_Witness ==
  \E i \in 1..Len(sent) :
    sent[i].kind = "check" /\ sent[i].text[1] \in Whitespace

\* C5: a change event that makes the trimmed text empty cancels the pending
\* debounce timeout and leaves the result null, the error null and the ignore
\* set empty.
C5_EmptyClears ==
  [][(delivered' # <<>> /\ text' # text /\ ~NonBlank(text'))
       => /\ timers' = <<>>
          /\ result' = NullResult
          /\ error' = "null"
          /\ ignoredErrors' = {}]_vars

\* A change event has just emptied the text while a check request awaits its
\* response.
C5_Witness ==
  /\ delivered # <<>>
  /\ ~NonBlank(text)
  /\ inflightLatest
  /\ result = NullResult /\ ignoredErrors = {} /\ timers = <<>>

\* C6: debounce: at most one timeout is pending, it was started by the last
\* change of the text (it holds that text and has run for as long as the text
\* has been unchanged), a check request is issued only after the text stayed
\* unchanged for the whole window, and at most one between two changes.
C6_Debounce ==
  /\ Len(timers) <= 1
  /\ \A i \in 1..Len(timers) :
       timers[i].text = text /\ timers[i].left = WindowTicks - quiet
  /\ \A i \in 1..Len(sent) :
       sent[i].kind = "check" => quiet = WindowTicks /\ sent[i].text = text
  /\ issuedInQuiet <= 1

\* A check request was issued at the end of a window.
C6_Witness ==
  /\ sent # <<>>
  /\ sent[1].kind = "check"
  /\ quiet = WindowTicks
  /\ issuedInQuiet = 1

\* C7: a check request that fails sets the error message and leaves the
\* result and the ignore set as they were; issuing the request left them
\* alone too.
C7_FailureKeepsResult ==
  [][/\ CheckResponseFail => /\ error' \in Failures
                             /\ result' = result
                             /\ ignoredErrors' = ignoredErrors
     /\ TimerFire => /\ result' = result
                     /\ ignoredErrors' = ignoredErrors]_vars

\* A failure is showing beside a result with an ignored finding.
C7_Witness ==
  /\ error \in Failures
  /\ result.present
  /\ ignoredErrors # {}
  /\ ActiveErrors(App) # <<>>

\* C8: a projection makes no onChange call, issues no request and leaves the
\* plain text, the result, the error, the ignore set, the debounce timeouts and
\* the pending requests as they are; it ends with the gate released.
C8_ProjectionIsSilent ==
  [][ProjectFire =>
       /\ delivered' = <<>>
       /\ sent' = <<>>
       /\ isUpdatingRef' = FALSE
       /\ quill'.text = quill.text
       /\ UNCHANGED <<text, result, error, ignoredErrors, timers, inflightLatest,
                      inflightStale, analyzeInFlight>>]_vars

\* A projection marked a finding while a debounce timeout was pending.
C8_Witness ==
  /\ projected # <<>>
  /\ projected[1].applied # {}
  /\ timers # <<>>

\* C9: a projection never marks a finding with offset < 0, length <= 0 or
\* offset + length > len(plainText); it marks every other finding it was given
\* and ends with the gate released, and every marked character lies in the
\* span of a finding that fits.
C9_OutOfRangeSkipped ==
  \A i \in 1..Len(projected) :
    LET p == projected[i]
        fitting == {p.errors[j] : j \in {k \in 1..Len(p.errors) :
                                           Fits(p.errors[k].offset, p.errors[k].length,
                                                GetText(quill))}}
    IN /\ p.applied = fitting
       /\ ~isUpdatingRef
       /\ \A c \in 1..Len(quill.text) :
            quill.marks[c] =>
              \E m \in fitting : m.offset < c /\ c <= m.offset + m.length

\* A projection skipped a finding with a negative offset and marked a later one.
C9_Witness ==
  \E i \in 1..Len(projected) :
    /\ \E j \in 1..Len(projected[i].errors) : projected[i].errors[j] = FNeg
    /\ FWide \in projected[i].applied

\* C10: projection is idempotent: a projection of the errors last projected,
\* onto the document as that projection left it, changes neither the text nor
\* the marks nor the selection.
C10_ProjectionIdempotent ==
  [][(ProjectFire /\ lastProjected = <<projTimer[1]>>) => quill' = quill]_vars

\* The same errors were projected a second time onto a marked document.
C10_Witness ==
  /\ projected # <<>>
  /\ projected[1].again
  /\ projected[1].applied # {}
  /\ quill.sel # NoSel

\* C11: a replace whose span has offset < 0 or offset + length > len(plainText)
\* is a no-op: it leaves the document's plain text, marks and caret as they were.
C11_ReplaceValidates ==
  [][\A i \in 1..Len(replaced') :
       (replaced'[i].offset < 0
          \/ replaced'[i].offset + replaced'[i].length > Len(replaced'[i].before))
         => quill' = quill]_vars

\* C12: once a replacement for a finding has been applied, the finding is no
\* longer among the active findings, those listed and projected.
C12_ReplacedDisappears ==
  \A i \in 1..Len(replaced) :
    \A j \in 1..Len(ActiveErrors(App)) : ActiveErrors(App)[j] # replaced[i].match

\* C13 as stated: after a replacement for finding f is accepted, identity(f) is
\* not in the ignore set and every other identity that was in it still is.
C13_UnignoreOnlyThat ==
  [][\A i \in 1..Len(replaced') :
       /\ ErrorId(replaced'[i].match) \notin ignoredErrors'
       /\ ignoredErrors \ {ErrorId(replaced'[i].match)} \subseteq ignoredErrors']_vars

\* C13 amended: after a replacement for finding f is accepted the ignore set is
\* the one before without identity(f), unless the replacement changed the text
\* to one whose trim is empty: then the ignore set is empty.
C13_UnignoreUnlessEmptied ==
  [][\A i \in 1..Len(replaced') :
       IF text' # text /\ ~NonBlank(text')
       THEN ignoredErrors' = {}
       ELSE ignoredErrors' = ignoredErrors \ {ErrorId(replaced'[i].match)}]_vars

\* A replacement was accepted and another finding is still ignored.
C13_Witness ==
  /\ replaced # <<>>
  /\ ignoredErrors # {}
  /\ NonBlank(text)

\* C14: ignoring a finding adds exactly that finding's identity to the ignore
\* set: the document, the plain text, the result and the debounce timeouts stay
\* as they are and no request is issued; without a result the handler changes
\* nothing.
C14_IgnoreOnlyAdds ==
  [][/\ ~result.present => HandleIgnoreError(App, 1) = App
     /\ IgnoreClick =>
          /\ \E j \in Displayed(App) :
               /\ ErrorId(result.matches[j]) \notin ignoredErrors
               /\ ignoredErrors' = ignoredErrors \cup {ErrorId(result.matches[j])}
          /\ sent' = <<>>
          /\ delivered' = <<>>
          /\ UNCHANGED <<quill, text, result, error, timers, inflightLatest,
                         inflightStale, analyzeInFlight>>]_vars

\* A finding is ignored while a debounce timeout is pending and a check request
\* awaits its response.
C14_Witness ==
  /\ ignoredErrors # {}
  /\ timers # <<>>
  /\ inflightLatest
  /\ Len(ActiveErrors(App)) < Len(result.matches)

\* C15: the update gate is released in every state between two tasks: every
\* path out of replaceText and of the projection, one on which a Quill call
\* throws included, leaves isUpdatingRef false.
C15_GateReleased == isUpdatingRef = FALSE

\* C16: replace is all-or-nothing: when a step of the sequence fails, the
\* document's plain text is what it was before the replace.
C16_ReplaceAllOrNothing ==
  [][\A i \in 1..Len(replaced') :
       replaced'[i].thrown # "none" => GetText(quill') = GetText(quill)]_vars

\* C17: the ignore set and the result are updated together: in every state
\* every identity in the ignore set is the identity of a finding of the
\* current result.
C17_IgnoredAreFindings == ignoredErrors \subseteq Ids(result.matches)

C19_OneChangeEvent ==
  \A i \in 1..Len(replaced) :
    replaced[i].thrown = "none" =>
      /\ Len(delivered) = 1
      /\ delivered[1] = GetText(quill)
      /\ text = GetText(quill)

\* A replace deleted a span inside the document and inserted a text of another
\* length, so that the intermediate text differs from the final one.
C19_Witness ==
  \E i \in 1..Len(replaced) :
    /\ Fits(replaced[i].offset, replaced[i].length + 1, replaced[i].before)
    /\ Len(replaced[i].replacement) > replaced[i].length
    /\ delivered = <<GetText(quill)>>

\* C20: the text a check request carries is the document's plain text at the
\* moment the debounce timeout fires, never an older one.
C20_RequestCarriesCurrentText ==
  \A i \in 1..Len(sent) :
    sent[i].kind = "check" => sent[i].text = GetText(quill)

\* A check request is issued for a text edited after an earlier request, which
\* still awaits its response.
C20_Witness ==
  /\ sent # <<>>
  /\ sent[1].kind = "check"
  /\ inflightStale > 0

\* C21: after a projection has completed, a character of the document carries
\* the error mark if and only if it lies in the span of a finding that is in
\* the result, is not ignored and fits the document; marks of findings now
\* ignored or gone are removed, also when no finding is active.
C21_MarksAreActiveSpans ==
  projected # <<>> =>
    \A c \in 1..Len(quill.text) :
      quill.marks[c] <=>
        \E j \in 1..Len(ActiveErrors(App)) :
          LET m == ActiveErrors(App)[j]
          IN /\ Fits(m.offset, m.length, GetText(quill))
             /\ m.offset < c /\ c <= m.offset + m.length

\* A projection has marked one finding and removed the mark of an ignored one.
C21_Witness ==
  /\ projected # <<>>
  /\ ignoredErrors # {}
  /\ \E c \in 1..Len(quill.text) : quill.marks[c]
  /\ \E c \in 1..Len(quill.text) :
       /\ ~quill.marks[c]
       /\ \E j \in 1..Len(result.matches) :
            /\ ErrorId(result.matches[j]) \in ignoredErrors
            /\ result.matches[j].offset < c
            /\ c <= result.matches[j].offset + result.matches[j].length

\* C22: a projection preserves the caret: the selection (index and length)
\* after it equals the selection before it, and where there was no selection
\* before, there is none after.
C22_ProjectionKeepsCaret ==
  [][projected' # <<>> => quill'.sel = quill.sel]_vars

Idle ==
  /\ timers = <<>>
  /\ ~inflightLatest
  /\ inflightStale = 0
  /\ loading = FALSE

\* C24: the scheduler never gets stuck: when the text stops changing at a
\* text that is not blank, a check request carrying it is issued, the
\* response or the failure brings the scheduler to rest, and no further check
\* request follows: from some point on the scheduler is at rest with exactly
\* one request issued since the last change.
C24_SchedulerSettles ==
  /\ [][\A i \in 1..Len(sent') :
         sent'[i].kind = "check" => sent'[i].text = text']_vars
  /\ \/ []<><<text' # text>>_vars
     \/ <>[]IsBlank(text)
     \/ <>[](Idle /\ issuedInQuiet = 1)

\* The one request of the last edit failed and the scheduler is at rest.
C24_Witness ==
  /\ Idle
  /\ issuedInQuiet = 1
  /\ NonBlank(text)
  /\ error # "null"
  /\ quiet = WindowTicks

\* C25: a replacement is applied only with a finding computed for the
\* document's current plain text: replaceText is never called while the
\* result answers a request that carried another text than the one the
\* document has now.
C25_ReplaceOnlyCurrent ==
  [][replaced' # <<>> => resultAge # "stale"]_vars

\* C26: in every state in which the trimmed plain text is empty, the check
\* result is null and the ignore set is empty; a response that arrives after
\* the text was emptied does not bring a result back.
C26_BlankHasNoResult ==
  IsBlank(text) => (result = NullResult /\ ignoredErrors = {})

\* C27: accepting candidate i of the displayed finding m calls the editor's
\* replaceText with the finding's offset and length and with the candidate's
\* text (the candidate itself when a string, its value when an object), for
\* every m and i, the candidate whose text is the empty string included.
C27_EveryCandidateReplaces ==
  \A m \in Displayed(App) :
    \A i \in 1..Len(result.matches[m].replacements) :
      \A mark \in MarksAt(quill, Lo(quill, result.matches[m].offset)) :
        LET match == result.matches[m]
            r == HandleReplaceText(App, quill, isUpdatingRef, m, i, mark)
        IN /\ Len(r.replaced) = 1
           /\ r.replaced[1].offset = match.offset
           /\ r.replaced[1].length = match.length
           /\ r.replaced[1].replacement = match.replacements[i].value

====
